---- MODULE Spec2Model ----
(***************************************************************************)
(* AgriNexus-AI: the CropConsultant agent (agents.py), the AgriSearch      *)
(* knowledge lookup (search_tool.py), the SoilSensorNetwork simulator      *)
(* (sensors.py) and the main() pipeline (main.py).                         *)
(*                                                                         *)
(* Text is modelled as a sequence of words (a Python str "a b" is          *)
(* <<"a", "b">>): concatenation of f-strings is \o, `w in text` for a      *)
(* one-word needle is membership of the word, str.lower() maps each word.  *)
(* No word of the vocabulary used here is a substring of another one, so   *)
(* Python's substring test and the word test agree on it.                  *)
(*                                                                         *)
(* A float average sum/len is kept as the exact fraction <<sum, len>>.     *)
(***************************************************************************)
EXTENDS Integers, Sequences, FiniteSets, TLC

VARIABLES
    search_tool,      \* CropConsultant.search_tool: "AgriSearch" or "None"
    simulation_mode,  \* AgriSearch.simulation_mode
    DDGS,             \* search_tool.DDGS: TRUE when duckduckgo_search imported
    mock_db,          \* AgriSearch.mock_db: key -> list of documents
    pc,               \* position of the caller / of main()
    sensor_readings,  \* argument of analyze_field; main's `readings`
    diagnosis,        \* value returned by analyze_field; main's `diagnosis`
    anomalies,        \* argument `anomalies` of research_solutions
    crop,             \* argument `crop` of research_solutions
    knowledge_base,   \* value returned by research_solutions; main's `knowledge_base`
    rec,              \* value returned by generate_plan; main's `rec`
    raised,           \* exception that left the last call ("none" when it returned)
    lookups,          \* log of the AgriSearch.search calls made by the last operation
    stages,           \* agent phases entered so far in the run
    query,            \* argument `query` of AgriSearch.search
    max_results,      \* argument `max_results` of AgriSearch.search
    results           \* value returned by AgriSearch.search

vars == <<search_tool, simulation_mode, DDGS, mock_db, pc, sensor_readings,
          diagnosis, anomalies, crop, knowledge_base, rec, raised, lookups,
          stages, query, max_results, results>>

(***************************************************************************)
(* Bounds of the model.                                                    *)
(***************************************************************************)
MaxReadings == 2      \* longest batch handed to analyze_field directly
MaxAnomalies == 2     \* longest anomaly list handed to the agent directly
MaxFindings == 3      \* longest findings list handed to generate_plan directly
MaxResults == 4       \* largest max_results handed to search directly
MaxDbLen == 7         \* cap on the length of a mock_db entry

(***************************************************************************)
(* Text helpers.                                                           *)
(***************************************************************************)
Min(a, b) == IF a <= b THEN a ELSE b

\* python: needle in text (needle a single word)
Contains(text, word) == \E i \in DOMAIN text : text[i] = word

\* python: str.lower() on one word of the vocabulary
LowerWord(w) ==
    CASE w = "Nitrogen" -> "nitrogen"
      [] w = "Deficiency" -> "deficiency"
      [] w = "Excessive" -> "excessive"
      [] w = "Soil" -> "soil"
      [] w = "Moisture" -> "moisture"
      [] w = "Low" -> "low"
      [] w = "Soybean" -> "soybean"
      [] w = "Requirements" -> "requirements"
      [] OTHER -> w

\* python: query.lower()
Lower(text) == [i \in DOMAIN text |-> LowerWord(text[i])]

\* python: text[:n] / list[:n]
Take(s, n) == SubSeq(s, 1, Min(n, Len(s)))

RECURSIVE Flatten(_)
\* concatenation of a sequence of sequences
Flatten(ss) == IF ss = <<>> THEN <<>> ELSE Head(ss) \o Flatten(Tail(ss))

\* python: str(anomalies), the repr of a list of str
Str(labels) ==
    <<"[">> \o Flatten([i \in DOMAIN labels |->
                (IF i = 1 THEN <<>> ELSE <<",">>) \o <<"'">> \o labels[i] \o <<"'">>])
          \o <<"]">>

\* python: sep.join(labels)
Join(labels, sep) ==
    Flatten([i \in DOMAIN labels |->
                (IF i = 1 THEN <<>> ELSE <<sep>>) \o labels[i]])

(***************************************************************************)
(* AgriSearch (search_tool.py).                                            *)
(***************************************************************************)
Doc(t, b) == [title |-> t, body |-> b]

KeyTreatments == <<"corn", "nitrogen", "deficiency", "treatments">>
KeyRainfall == <<"corn", "nitrogen", "deficiency", "heavy", "rainfall">>
KeySoybean == <<"soybean", "moisture", "requirements">>

\* the keys of mock_db in insertion order (dict iteration order)
MockKeys == <<KeyTreatments, KeyRainfall, KeySoybean>>

\* AgriSearch.__init__: self.mock_db
InitialMockDb ==
    <<
      << Doc(<<"Management of Nitrogen Deficiency in Corn">>, <<"Apply side-dress nitrogen">>),
         Doc(<<"Identifying Nutrient Deficiencies in Corn">>, <<"Yellowing in V-shape">>),
         Doc(<<"Wet Season Corn Nitrogen Management">>, <<"In years with excessive rainfall">>) >>,
      << Doc(<<"Nitrogen Loss from Heavy Rains">>, <<"Heavy rainfall causes denitrification">>) >>,
      << Doc(<<"Soybean Water Requirements">>, <<"Soybeans require 15-25 inches">>) >>
    >>

\* default of the parameter max_results of AgriSearch.search
DefaultMaxResults == 3

\* the generic document of the simulation mode when no key matches
Bulletin(q) ==
    Doc(<<"Agricultural", "Bulletin:">> \o q,
        <<"Recent", "studies", "show", "that", "regarding">> \o q)

\* documents a live DuckDuckGo query can yield
WebDoc1 == Doc(<<"web result one">>, <<"web body one">>)
WebDoc2 == Doc(<<"web result two">>, <<"web body two">>)

\* DDGS().text(query, max_results=max_results): no row, or a page of rows cut
\* at max_results
DDGSText(maxres) == {Take(<<WebDoc1, WebDoc2>>, k) : k \in 0..Min(2, maxres)}

\* simulation mode: the documents of every key all of whose words are in the query
SimMatches(db, q) ==
    Flatten([k \in DOMAIN MockKeys |->
        IF \A i \in DOMAIN MockKeys[k] : Contains(Lower(q), MockKeys[k][i])
        THEN db[k] ELSE <<>>])

(* AgriSearch.search(query, max_results): the set of values the call can     *)
(* return, each with `shared` = TRUE when the returned list IS the list      *)
(* object stored in mock_db (so that mutating it mutates mock_db).           *)
search(db, q, maxres) ==
    LET fallback == [docs |-> db[1], shared |-> TRUE]
    IN  IF simulation_mode
        THEN IF SimMatches(db, q) # <<>>
             THEN {[docs |-> Take(SimMatches(db, q), maxres), shared |-> FALSE]}
             ELSE {[docs |-> <<Bulletin(q)>>, shared |-> FALSE]}
        ELSE IF DDGS
             THEN {[docs |-> r, shared |-> FALSE] : r \in DDGSText(maxres)}
                  \cup {fallback}
             ELSE {fallback}

(***************************************************************************)
(* SoilSensorNetwork (sensors.py).  Values are whole mg/kg and percent.     *)
(***************************************************************************)
\* profiles with corn's moisture range written as volumetric water content
profiles_volumetric(crop_type) ==
    CASE crop_type = "soybean" -> [n |-> <<20, 40>>, moisture |-> <<50, 70>>]
      [] crop_type = "wheat" -> [n |-> <<100, 150>>, moisture |-> <<40, 60>>]
      [] OTHER -> [n |-> <<140, 200>>, moisture |-> <<20, 40>>]

\* self.profiles[crop_type]: the (low, high) ranges random.uniform draws from
profiles(crop_type) ==
    CASE crop_type = "soybean" -> [n |-> <<20, 40>>, moisture |-> <<50, 70>>]
      [] crop_type = "wheat" -> [n |-> <<100, 150>>, moisture |-> <<40, 60>>]
      [] OTHER -> [n |-> <<140, 200>>, moisture |-> <<60, 80>>]

\* what random.random() and random.uniform() decide for one zone: the zone is
\* a problem zone or not, and n_base and m_base are an end point of their range
ZoneDraws(crop_type) ==
    [problem : BOOLEAN,
     n : {profiles(crop_type).n[1], profiles(crop_type).n[2]},
     m : {profiles(crop_type).moisture[1], profiles(crop_type).moisture[2]}]

\* the dict appended for zone i: n_base *= 0.6 and m_base *= 1.4 in a problem zone
ZoneReading(i, d) ==
    [zone_id |-> i,
     nitrogen |-> IF d.problem THEN (d.n * 6) \div 10 ELSE d.n,
     moisture |-> IF d.problem THEN (d.m * 14) \div 10 ELSE d.m,
     status |-> IF d.problem THEN "Check Required" ELSE "Optimal"]

\* SoilSensorNetwork(crop_type).read_sensors(zones): the batches it can return
read_sensors(crop_type, zones) ==
    { [i \in 1..zones |-> ZoneReading(i, draws[i])] :
        draws \in [1..zones -> ZoneDraws(crop_type)] }

(***************************************************************************)
(* CropConsultant (agents.py).                                             *)
(***************************************************************************)
NitrogenThreshold == 120
MoistureThreshold == 40

NitrogenLabel == <<"Nitrogen", "Deficiency", "detected", "across", "multiple", "zones">>
MoistureLabel == <<"Excessive", "Soil", "Moisture", "detected">>

RECURSIVE SumField(_, _)
\* python: sum(r[field] for r in sensor_readings)
SumField(rs, f) == IF rs = <<>> THEN 0 ELSE Head(rs)[f] + SumField(Tail(rs), f)

\* a fraction <<num, den>> compared with a whole number
FracLess(a, c) == a[1] < c * a[2]
FracGreater(a, c) == a[1] > c * a[2]

NoDiagnosis == [avg_n |-> <<0, 1>>, avg_m |-> <<0, 1>>, anomalies |-> <<>>, none |-> TRUE]

\* analyze_field with the nitrogen test written `avg_n <= 120`
analyze_field_le(rs) ==
    IF Len(rs) = 0
    THEN [raised |-> "ZeroDivisionError", value |-> NoDiagnosis]
    ELSE LET avg_n == <<SumField(rs, "nitrogen"), Len(rs)>>
             avg_m == <<SumField(rs, "moisture"), Len(rs)>>
         IN [raised |-> "none",
             value |-> [avg_n |-> avg_n, avg_m |-> avg_m,
                        anomalies |->
                          (IF ~FracGreater(avg_n, NitrogenThreshold)
                           THEN <<NitrogenLabel>> ELSE <<>>)
                          \o (IF FracGreater(avg_m, MoistureThreshold)
                              THEN <<MoistureLabel>> ELSE <<>>),
                        none |-> FALSE]]

\* CropConsultant.analyze_field(sensor_readings)
analyze_field(rs) ==
    IF Len(rs) = 0
    THEN [raised |-> "ZeroDivisionError", value |-> NoDiagnosis]
    ELSE LET avg_n == <<SumField(rs, "nitrogen"), Len(rs)>>
             avg_m == <<SumField(rs, "moisture"), Len(rs)>>
         IN [raised |-> "none",
             value |-> [avg_n |-> avg_n, avg_m |-> avg_m,
                        anomalies |->
                          (IF FracLess(avg_n, NitrogenThreshold)
                           THEN <<NitrogenLabel>> ELSE <<>>)
                          \o (IF FracGreater(avg_m, MoistureThreshold)
                              THEN <<MoistureLabel>> ELSE <<>>),
                        none |-> FALSE]]

\* the two queries research_solutions formulates
PrimaryQuery(c, issue) == <<c>> \o issue \o <<"treatments">>
Refinement(c) == <<c, "nitrogen", "deficiency", "heavy", "rainfall", "leaching">>

\* one entry of the log of lookup calls
Lookup(q, maxres, docs) == [query |-> q, max_results |-> maxres, returned |-> docs]

\* research_iteration with findings.extend(results) placed before the
\* refinement, so that the refinement's documents never reach findings
research_iteration_early_extend(anoms, c, i, st) ==
    LET issue == anoms[i]
        q == PrimaryQuery(c, issue)
    IN UNION {
         LET log1 == Append(st.lookups, Lookup(q, DefaultMaxResults, r1.docs))
         IN IF Contains(issue, "Nitrogen") /\ Contains(Str(anoms), "Moisture")
            THEN { [findings |-> st.findings \o r1.docs,
                    db |-> IF r1.shared THEN [st.db EXCEPT ![1] = r1.docs \o r2.docs]
                           ELSE st.db,
                    lookups |-> Append(log1,
                        Lookup(Refinement(c), DefaultMaxResults, r2.docs))]
                   : r2 \in search(st.db, Refinement(c), DefaultMaxResults) }
            ELSE { [findings |-> st.findings \o r1.docs,
                    db |-> st.db,
                    lookups |-> log1] }
         : r1 \in search(st.db, q, DefaultMaxResults) }

(* One iteration of the loop of research_solutions, for anoms[i], in the     *)
(* state st = [findings, db, lookups]: the set of states it can end in.      *)
(* `results` is the list the primary search returned; when that list is the  *)
(* mock_db entry itself, results.extend(...) grows the entry.                *)
research_iteration(anoms, c, i, st) ==
    LET issue == anoms[i]
        q == PrimaryQuery(c, issue)
    IN UNION {
         LET log1 == Append(st.lookups, Lookup(q, DefaultMaxResults, r1.docs))
         IN IF Contains(issue, "Nitrogen") /\ Contains(Str(anoms), "Moisture")
            THEN { LET ext == r1.docs \o r2.docs
                   IN [findings |-> st.findings \o ext,
                       db |-> IF r1.shared THEN [st.db EXCEPT ![1] = ext] ELSE st.db,
                       lookups |-> Append(log1,
                           Lookup(Refinement(c), DefaultMaxResults, r2.docs))]
                   : r2 \in search(st.db, Refinement(c), DefaultMaxResults) }
            ELSE { [findings |-> st.findings \o r1.docs,
                    db |-> st.db,
                    lookups |-> log1] }
         : r1 \in search(st.db, q, DefaultMaxResults) }

RECURSIVE ResearchFrom(_, _, _, _)
\* the loop `for issue in anomalies` from its i-th iteration on
ResearchFrom(anoms, c, i, st) ==
    IF i > Len(anoms) THEN {st}
    ELSE UNION { ResearchFrom(anoms, c, i + 1, s2) :
                 s2 \in research_iteration(anoms, c, i, st) }

\* research_solutions reaching for self.search_tool.search before it looks at
\* `anomalies`
research_solutions_tool_first(db, anoms, c) ==
    IF search_tool = "None"
    THEN {[raised |-> "AttributeError", value |-> <<>>, db |-> db, lookups |-> <<>>]}
    ELSE IF anoms = <<>>
    THEN {[raised |-> "none", value |-> <<>>, db |-> db, lookups |-> <<>>]}
    ELSE {[raised |-> "none", value |-> st.findings, db |-> st.db, lookups |-> st.lookups] :
            st \in ResearchFrom(anoms, c, 1,
                                [findings |-> <<>>, db |-> db, lookups |-> <<>>])}

(* CropConsultant.research_solutions(anomalies, crop) on a consultant whose  *)
(* lookup store is db: the set of outcomes [raised, value, db, lookups].     *)
research_solutions(db, anoms, c) ==
    IF anoms = <<>>
    THEN {[raised |-> "none", value |-> <<>>, db |-> db, lookups |-> <<>>]}
    ELSE IF search_tool = "None"
    THEN {[raised |-> "AttributeError", value |-> <<>>, db |-> db, lookups |-> <<>>]}
    ELSE {[raised |-> "none", value |-> st.findings, db |-> st.db, lookups |-> st.lookups] :
            st \in ResearchFrom(anoms, c, 1,
                                [findings |-> <<>>, db |-> db, lookups |-> <<>>])}

NoRec == [alert_level |-> "None", diagnosis |-> <<>>, action_plan |-> "None", sources |-> <<>>]

\* generate_plan with the severity test written `len(...) >= 1`
generate_plan_red_from_one(diag, research) ==
    IF diag.anomalies = <<>>
    THEN [raised |-> "none",
          value |-> [alert_level |-> "GREEN",
                     diagnosis |-> <<"Optimal", "Conditions">>,
                     action_plan |-> "Continue monitoring. No intervention required.",
                     sources |-> <<>>]]
    ELSE [raised |-> "none",
          value |-> [alert_level |-> IF Len(diag.anomalies) >= 1 THEN "RED" ELSE "YELLOW",
                     diagnosis |-> Join(diag.anomalies, ";"),
                     action_plan |-> "**IMMEDIATE ACTION REQUIRED**",
                     sources |-> [i \in 1..Len(Take(research, 2)) |->
                                     Take(research, 2)[i].title]]]

\* generate_plan citing research[:3]
generate_plan_three_sources(diag, research) ==
    IF diag.anomalies = <<>>
    THEN [raised |-> "none",
          value |-> [alert_level |-> "GREEN",
                     diagnosis |-> <<"Optimal", "Conditions">>,
                     action_plan |-> "Continue monitoring. No intervention required.",
                     sources |-> <<>>]]
    ELSE [raised |-> "none",
          value |-> [alert_level |-> IF Len(diag.anomalies) > 1 THEN "RED" ELSE "YELLOW",
                     diagnosis |-> Join(diag.anomalies, ";"),
                     action_plan |-> "**IMMEDIATE ACTION REQUIRED**",
                     sources |-> [i \in 1..Len(Take(research, 3)) |->
                                     Take(research, 3)[i].title]]]

\* CropConsultant.generate_plan(diagnosis, research)
generate_plan(diag, research) ==
    IF diag.anomalies = <<>>
    THEN [raised |-> "none",
          value |-> [alert_level |-> "GREEN",
                     diagnosis |-> <<"Optimal", "Conditions">>,
                     action_plan |-> "Continue monitoring. No intervention required.",
                     sources |-> <<>>]]
    ELSE [raised |-> "none",
          value |-> [alert_level |-> IF Len(diag.anomalies) > 1 THEN "RED" ELSE "YELLOW",
                     diagnosis |-> Join(diag.anomalies, ";"),
                     action_plan |-> "**IMMEDIATE ACTION REQUIRED**",
                     sources |-> [i \in 1..Len(Take(research, 2)) |->
                                     Take(research, 2)[i].title]]]

(***************************************************************************)
(* Inputs of the direct calls.                                             *)
(***************************************************************************)
SeqsUpTo(S, n) == UNION {[1..k -> S] : k \in 0..n}

NitrogenLevels == {100, 120, 140}
MoistureLevels == {30, 40, 50}

ReadingBatches ==
    { b \in SeqsUpTo([zone_id : 1..MaxReadings, nitrogen : NitrogenLevels,
                      moisture : MoistureLevels, status : {"Optimal"}], MaxReadings) :
        \A i \in DOMAIN b : b[i].zone_id = i }

OtherLabel == <<"Low", "pH">>
Labels == {NitrogenLabel, MoistureLabel, OtherLabel}
AnomalyLists == SeqsUpTo(Labels, MaxAnomalies)
Crops == {"corn", "soybean"}

Diagnoses ==
    { [avg_n |-> <<0, 1>>, avg_m |-> <<0, 1>>, anomalies |-> a, none |-> FALSE] :
        a \in AnomalyLists }

FindingsLists == SeqsUpTo({InitialMockDb[1][1], InitialMockDb[2][1], WebDoc1}, MaxFindings)

Queries ==
    { <<"corn", "nitrogen", "deficiency", "treatments">>,
      <<"corn", "nitrogen", "deficiency", "heavy", "rainfall", "treatments">>,
      <<"Soybean", "Moisture", "Requirements">>,
      <<"wheat", "rust">> }

(***************************************************************************)
(* State after construction, and the operations.                           *)
(***************************************************************************)
\* ---- analyze_field called on a batch ----
InitAnalyze ==
    /\ pc = "call"
    /\ sensor_readings \in ReadingBatches
    /\ search_tool = "AgriSearch" /\ simulation_mode = TRUE /\ DDGS = FALSE
    /\ mock_db = InitialMockDb /\ diagnosis = NoDiagnosis /\ anomalies = <<>>
    /\ crop = "corn" /\ knowledge_base = <<>> /\ rec = NoRec /\ raised = "none"
    /\ lookups = <<>> /\ stages = <<>> /\ query = <<>>
    /\ max_results = DefaultMaxResults /\ results = <<>>

AnalyzeField ==
    /\ pc = "call"
    /\ LET r == analyze_field(sensor_readings)
       IN /\ diagnosis' = r.value
          /\ raised' = r.raised
    /\ pc' = "return"
    /\ UNCHANGED <<search_tool, simulation_mode, DDGS, mock_db, sensor_readings,
                   anomalies, crop, knowledge_base, rec, lookups, stages, query,
                   max_results, results>>

NextAnalyze == AnalyzeField
SpecAnalyze == InitAnalyze /\ [][NextAnalyze]_vars

\* ---- generate_plan called on a diagnosis and a findings list ----
InitPlan ==
    /\ pc = "call"
    /\ diagnosis \in Diagnoses
    /\ knowledge_base \in FindingsLists
    /\ search_tool = "AgriSearch" /\ simulation_mode = TRUE /\ DDGS = FALSE
    /\ mock_db = InitialMockDb /\ sensor_readings = <<>> /\ anomalies = <<>>
    /\ crop = "corn" /\ rec = NoRec /\ raised = "none"
    /\ lookups = <<>> /\ stages = <<>> /\ query = <<>>
    /\ max_results = DefaultMaxResults /\ results = <<>>

GeneratePlan ==
    /\ pc = "call"
    /\ LET r == generate_plan(diagnosis, knowledge_base)
       IN /\ rec' = r.value
          /\ raised' = r.raised
    /\ pc' = "return"
    /\ UNCHANGED <<search_tool, simulation_mode, DDGS, mock_db, sensor_readings,
                   diagnosis, anomalies, crop, knowledge_base, lookups, stages,
                   query, max_results, results>>

NextPlan == GeneratePlan
SpecPlan == InitPlan /\ [][NextPlan]_vars

\* ---- AgriSearch(simulation_mode).search called on a query ----
InitSearch ==
    /\ pc = "call"
    /\ simulation_mode \in BOOLEAN
    /\ DDGS \in BOOLEAN
    /\ query \in Queries
    /\ max_results \in 1..MaxResults
    /\ search_tool = "AgriSearch"
    /\ mock_db = InitialMockDb /\ sensor_readings = <<>> /\ diagnosis = NoDiagnosis
    /\ anomalies = <<>> /\ crop = "corn" /\ knowledge_base = <<>> /\ rec = NoRec
    /\ raised = "none" /\ lookups = <<>> /\ stages = <<>> /\ results = <<>>

Search ==
    /\ pc = "call"
    /\ \E r \in search(mock_db, query, max_results) :
          /\ results' = r.docs
          /\ raised' = "none"
    /\ pc' = "return"
    /\ UNCHANGED <<search_tool, simulation_mode, DDGS, mock_db, sensor_readings,
                   diagnosis, anomalies, crop, knowledge_base, rec, lookups, stages,
                   query, max_results>>

NextSearch == Search
SpecSearch == InitSearch /\ [][NextSearch]_vars

\* ---- research_solutions called again and again on one consultant ----
InitResearch ==
    /\ pc = "idle"
    /\ search_tool \in {"AgriSearch", "None"}
    /\ simulation_mode \in BOOLEAN
    /\ DDGS \in BOOLEAN
    /\ (search_tool = "None" => simulation_mode /\ ~DDGS)
    /\ mock_db = InitialMockDb /\ sensor_readings = <<>> /\ diagnosis = NoDiagnosis
    /\ anomalies = <<>> /\ crop = "corn" /\ knowledge_base = <<>> /\ rec = NoRec
    /\ raised = "none" /\ lookups = <<>> /\ stages = <<>> /\ query = <<>>
    /\ max_results = DefaultMaxResults /\ results = <<>>

ResearchSolutions ==
    /\ pc = "idle"
    /\ \E a \in AnomalyLists, c \in Crops :
         \E o \in research_solutions(mock_db, a, c) :
            /\ Len(o.db[1]) <= MaxDbLen
            /\ anomalies' = a
            /\ crop' = c
            /\ knowledge_base' = o.value
            /\ raised' = o.raised
            /\ lookups' = o.lookups
            /\ mock_db' = o.db
    /\ pc' = "return"
    /\ UNCHANGED <<search_tool, simulation_mode, DDGS, sensor_readings, diagnosis,
                   rec, stages, query, max_results, results>>

\* The caller lets go of the list it was handed: every call of
\* research_solutions starts from a new `findings = []`, so nothing of the
\* previous call but mock_db reaches the next one.
ForgetFindings ==
    /\ pc = "return"
    /\ pc' = "idle"
    /\ anomalies' = <<>>
    /\ crop' = "corn"
    /\ knowledge_base' = <<>>
    /\ raised' = "none"
    /\ lookups' = <<>>
    /\ UNCHANGED <<search_tool, simulation_mode, DDGS, mock_db, sensor_readings,
                   diagnosis, rec, stages, query, max_results, results>>

NextResearch == ResearchSolutions \/ ForgetFindings
SpecResearch == InitResearch /\ [][NextResearch]_vars

\* ---- main(): sensors, then the three phases of the agent ----
Zones == 4

InitMain ==
    /\ pc = "start"
    /\ DDGS \in BOOLEAN
    /\ search_tool = "AgriSearch" /\ simulation_mode = TRUE
    /\ mock_db = InitialMockDb /\ sensor_readings = <<>> /\ diagnosis = NoDiagnosis
    /\ anomalies = <<>> /\ crop = "corn" /\ knowledge_base = <<>> /\ rec = NoRec
    /\ raised = "none" /\ lookups = <<>> /\ stages = <<>> /\ query = <<>>
    /\ max_results = DefaultMaxResults /\ results = <<>>

\* main.py 32-33: SoilSensorNetwork("corn").read_sensors(zones=4)
MainReadSensors ==
    /\ pc = "start"
    /\ sensor_readings' \in read_sensors("corn", Zones)
    /\ pc' = "sensed"
    /\ UNCHANGED <<search_tool, simulation_mode, DDGS, mock_db, diagnosis, anomalies,
                   crop, knowledge_base, rec, raised, lookups, stages, query,
                   max_results, results>>

\* main.py 63-71: Phase 1, and the return when there is no anomaly
MainDiagnose ==
    /\ pc = "sensed"
    /\ LET r == analyze_field(sensor_readings)
       IN /\ diagnosis' = r.value
          /\ raised' = r.raised
          /\ pc' = IF r.raised # "none" THEN "failed"
                   ELSE IF r.value.anomalies # <<>> THEN "diagnosed"
                   ELSE "done"
    /\ stages' = Append(stages, "Aggregator")
    /\ UNCHANGED <<search_tool, simulation_mode, DDGS, mock_db, sensor_readings,
                   anomalies, crop, knowledge_base, rec, lookups, query,
                   max_results, results>>

\* main.py 74-75: Phase 2
MainResearch ==
    /\ pc = "diagnosed"
    /\ \E o \in research_solutions(mock_db, diagnosis.anomalies, "corn") :
          /\ anomalies' = diagnosis.anomalies
          /\ crop' = "corn"
          /\ knowledge_base' = o.value
          /\ raised' = o.raised
          /\ lookups' = o.lookups
          /\ mock_db' = o.db
          /\ pc' = IF o.raised # "none" THEN "failed" ELSE "researched"
    /\ stages' = Append(stages, "Strategist")
    /\ UNCHANGED <<search_tool, simulation_mode, DDGS, sensor_readings, diagnosis,
                   rec, query, max_results, results>>

\* main.py 79-96: Phase 3 and the final report
MainPlan ==
    /\ pc = "researched"
    /\ LET r == generate_plan(diagnosis, knowledge_base)
       IN /\ rec' = r.value
          /\ raised' = r.raised
          /\ pc' = IF r.raised # "none" THEN "failed" ELSE "done"
    /\ stages' = Append(stages, "Synthesizer")
    /\ UNCHANGED <<search_tool, simulation_mode, DDGS, mock_db, sensor_readings,
                   diagnosis, anomalies, crop, knowledge_base, lookups, query,
                   max_results, results>>

NextMain == MainReadSensors \/ MainDiagnose \/ MainResearch \/ MainPlan
SpecMain == InitMain /\ [][NextMain]_vars

(***************************************************************************)
(* The claims.                                                             *)
(***************************************************************************)
HasWord(label, w) == \E i \in 1..Len(label) : label[i] = w
NitrogenCount(labels) == Cardinality({i \in 1..Len(labels) : HasWord(labels[i], "Nitrogen")})
SomeMoisture(labels) == \E i \in 1..Len(labels) : HasWord(labels[i], "Moisture")
SecondaryCalls(log) == Cardinality({i \in 1..Len(log) : HasWord(log[i].query, "leaching")})

\* C1: analyze_field on an empty batch fails with InsufficientDataError, and
\* no call of analyze_field ever ends in a division by zero.
\* (Stated as the claim has it; the code divides by len(sensor_readings) = 0.)
C1_EmptyBatchInsufficientData ==
    pc = "return" =>
        /\ raised # "ZeroDivisionError"
        /\ (sensor_readings = <<>> => raised = "InsufficientDataError")

\* C2: for every non-empty batch analyze_field returns, with avg_nitrogen and
\* avg_moisture the means of the batch: no anomaly iff avg_nitrogen >= 120 and
\* avg_moisture <= 40; the nitrogen label exactly when avg_nitrogen < 120, the
\* moisture label exactly when avg_moisture > 40, nitrogen first, nothing else.
C2_AnomaliesIffThresholds ==
    (pc = "return" /\ sensor_readings # <<>>) =>
        LET k == Len(sensor_readings)
            lowN == SumField(sensor_readings, "nitrogen") < 120 * k
            highM == SumField(sensor_readings, "moisture") > 40 * k
            labelN == <<"Nitrogen", "Deficiency", "detected", "across", "multiple", "zones">>
            labelM == <<"Excessive", "Soil", "Moisture", "detected">>
        IN /\ raised = "none"
           /\ diagnosis.avg_n[1] * k = SumField(sensor_readings, "nitrogen") * diagnosis.avg_n[2]
           /\ diagnosis.avg_m[1] * k = SumField(sensor_readings, "moisture") * diagnosis.avg_m[2]
           /\ (diagnosis.anomalies = <<>>) <=> (~lowN /\ ~highM)
           /\ diagnosis.anomalies =
                (IF lowN THEN <<labelN>> ELSE <<>>) \o (IF highM THEN <<labelM>> ELSE <<>>)

\* C2 witness: a batch whose averages sit exactly on both thresholds (120 and
\* 40) was analysed and no anomaly was reported.
C2_Witness ==
    /\ pc = "return"
    /\ Len(sensor_readings) = 2
    /\ sensor_readings[1].nitrogen # sensor_readings[2].nitrogen
    /\ SumField(sensor_readings, "nitrogen") = 240
    /\ SumField(sensor_readings, "moisture") = 80
    /\ diagnosis.anomalies = <<>>

StageOrder == <<"Aggregator", "Strategist", "Synthesizer">>
IsPrefix(s, t) == Len(s) <= Len(t) /\ s = SubSeq(t, 1, Len(s))

C4_SecondaryLookupCount ==
    pc = "return" =>
        /\ SecondaryCalls(lookups) =
              (IF SomeMoisture(anomalies) THEN NitrogenCount(anomalies) ELSE 0)
        /\ Len(lookups) <= 2 * Len(anomalies)

\* The count of C4 on a consultant that has a search tool, in either lookup
\* mode: there the call returns and the secondary lookups are as C4 says.
SecondaryCountWithSearchTool ==
    (pc = "return" /\ search_tool # "None") =>
        /\ raised = "none"
        /\ SecondaryCalls(lookups) =
              (IF SomeMoisture(anomalies) THEN NitrogenCount(anomalies) ELSE 0)
        /\ Len(lookups) <= 2 * Len(anomalies)

\* C5: generate_plan's alert level is GREEN iff the anomaly list is empty,
\* RED iff it has more than one entry, YELLOW iff it has exactly one.
C5_AlertLevel ==
    pc = "return" =>
        /\ rec.alert_level \in {"GREEN", "YELLOW", "RED"}
        /\ (rec.alert_level = "GREEN") <=> (Len(diagnosis.anomalies) = 0)
        /\ (rec.alert_level = "RED") <=> (Len(diagnosis.anomalies) > 1)
        /\ (rec.alert_level = "YELLOW") <=> (Len(diagnosis.anomalies) = 1)

\* C5 witness: generate_plan returned YELLOW for a diagnosis with exactly one
\* anomaly.
C5_Witness ==
    /\ pc = "return"
    /\ Len(diagnosis.anomalies) = 1
    /\ rec.alert_level = "YELLOW"

FirstTitles(findings, n) ==
    [i \in 1..(IF Len(findings) < n THEN Len(findings) ELSE n) |-> findings[i].title]

\* C6 as stated: for every diagnosis and findings list, generate_plan returns
\* and sources are the titles of the first min(2, len(findings)) findings.
C6_SourcesFirstTwo_AsStated ==
    pc = "return" =>
        /\ raised = "none"
        /\ Len(rec.sources) = (IF Len(knowledge_base) < 2 THEN Len(knowledge_base) ELSE 2)
        /\ rec.sources = FirstTitles(knowledge_base, 2)

\* C6 as amended: generate_plan always returns; when the diagnosis has an
\* anomaly, sources are the titles of the first min(2, len(findings)) findings
\* in order (none when findings is empty); when the diagnosis has no anomaly,
\* sources is empty whatever the findings.
C6_SourcesFirstTwo ==
    pc = "return" =>
        /\ raised = "none"
        /\ (diagnosis.anomalies # <<>> =>
              /\ Len(rec.sources) = (IF Len(knowledge_base) < 2 THEN Len(knowledge_base) ELSE 2)
              /\ rec.sources = FirstTitles(knowledge_base, 2))
        /\ (diagnosis.anomalies = <<>> => rec.sources = <<>>)

\* C6 witness: generate_plan returned for a diagnosis with an anomaly and three
\* findings, citing two of them.
C6_Witness ==
    /\ pc = "return"
    /\ diagnosis.anomalies # <<>>
    /\ Len(knowledge_base) = 3
    /\ knowledge_base[1] # knowledge_base[2]
    /\ Len(rec.sources) = 2

\* C7: research_solutions called with no anomaly returns an empty findings
\* list and makes no lookup, whatever the crop, the lookup mode, and whether
\* or not the consultant has a search tool.
C7_EmptyAnomaliesNoLookup ==
    (pc = "return" /\ anomalies = <<>>) =>
        /\ raised = "none"
        /\ knowledge_base = <<>>
        /\ lookups = <<>>

\* C7 witness: a consultant without a search tool returned from
\* research_solutions called with no anomaly.
C7_Witness ==
    /\ pc = "return"
    /\ anomalies = <<>>
    /\ search_tool = "None"
    /\ crop = "soybean"

\* C8: AgriSearch.search never raises and returns at most max_results
\* documents, in simulation mode and in live mode.
\* (Stated as the claim has it; the live fallback returns the whole mock_db
\* entry of three documents.)
C8_AtMostMaxResults ==
    pc = "return" =>
        /\ raised = "none"
        /\ Len(results) <= max_results

PrimaryOf(c, label) == <<c>> \o label \o <<"treatments">>
SecondaryOf(c) == <<c, "nitrogen", "deficiency", "heavy", "rainfall", "leaching">>

RECURSIVE ExpectedQueries(_, _, _)
\* per anomaly from the i-th on: its primary query, then the secondary one when
\* the label has "Nitrogen" and some label of the list has "Moisture"
ExpectedQueries(labels, c, i) ==
    IF i > Len(labels) THEN <<>>
    ELSE <<PrimaryOf(c, labels[i])>>
         \o (IF HasWord(labels[i], "Nitrogen") /\ SomeMoisture(labels)
             THEN <<SecondaryOf(c)>> ELSE <<>>)
         \o ExpectedQueries(labels, c, i + 1)

RECURSIVE ReturnedInOrder(_)
ReturnedInOrder(log) ==
    IF log = <<>> THEN <<>> ELSE Head(log).returned \o ReturnedInOrder(Tail(log))

\* C9: the findings research_solutions returns are the documents its lookups
\* returned, concatenated in call order with nothing dropped, deduplicated or
\* reordered; the calls are, anomaly by anomaly in input order, the primary
\* query and then (when one is issued) the secondary query.
C9_FindingsAreConcatenation ==
    (pc = "return" /\ raised = "none") =>
        /\ [i \in 1..Len(lookups) |-> lookups[i].query] = ExpectedQueries(anomalies, crop, 1)
        /\ knowledge_base = ReturnedInOrder(lookups)

\* C9 witness: a live-mode call with a nitrogen and a moisture anomaly returned
\* after a primary, a secondary and a primary lookup, each with documents.
C9_Witness ==
    /\ pc = "return"
    /\ raised = "none"
    /\ ~simulation_mode
    /\ Len(anomalies) = 2
    /\ Len(lookups) = 3
    /\ \A i \in 1..3 : lookups[i].returned # <<>>
    /\ lookups[1].returned # lookups[2].returned

\* C10: whatever research_solutions calls were made, in either lookup mode,
\* mock_db still has its initial contents.
\* (Stated as the claim has it; the live fallback hands out the mock_db list
\* itself and results.extend grows it.)
C10_MockDbUnchanged == mock_db = InitialMockDb

====
